---- MODULE Spec2Model ----
(***************************************************************************)
(* Payroll ledger of paryrollPro: the PostgreSQL store behind              *)
(* server/database.ts (SQLDatabase), the payroll trigger and SQL functions *)
(* installed by registerRoutes, and the route handlers that combine        *)
(* several store calls.                                                    *)
(*                                                                         *)
(* Conventions.  A nullable column or an optional input is a sequence of   *)
(* length 0 (NULL / undefined) or 1 (the value).  Amounts are the numeric  *)
(* strings of the VARCHAR columns, written as the integers they denote.    *)
(* A patch (Partial<Payroll>) is a function whose DOMAIN is the set of     *)
(* keys that are not undefined.                                            *)
(***************************************************************************)
EXTENDS Integers, Sequences, FiniteSets, TLC

VARIABLES users, departments, employees, payrolls, seq, last, txn, reader,
          storage, calls

vars == <<users, departments, employees, payrolls, seq, last, txn, reader,
          storage, calls>>

\* ---------------------------------------------------------------- bounds
\* number of employee rows ever inserted
MaxEmployees == 2
\* number of payroll rows ever inserted
MaxPayrolls == 2

\* ------------------------------------------------------------- constants
MinMonth == 1
MaxMonth == 12
MinYear == 2000
MaxYear == 2100

Null == <<>>
Some(v) == <<v>>
IsNull(o) == o = <<>>
Val(o) == o[1]

NoErr == "none"

\* the transaction-control statements that reject in one withTransaction
\* call (a lost connection, a server-side abort): none, COMMIT, ROLLBACK, both
Faults == SUBSET {"COMMIT", "ROLLBACK"}
NoFault == {}

\* --------------------------------------------------- clients in progress
\* the rows a transaction in progress has deleted and not yet committed
NoRows == [payrolls |-> {}, employees |-> {}, departments |-> {}]

\* txn: the transaction that is taken statement by statement, if any
IdleTxn == [pc |-> "idle", op |-> "none", id |-> 0, deleted |-> NoRows, result |-> FALSE]

\* reader: the aggregate read that is taken query by query, if any, with
\* what it has read so far
IdleReader == [pc |-> "idle", op |-> "none", acc |-> Null, seen |-> {}]

\* the callers whose calls are taken step by step, and a caller with no call
\* in progress: the call, its input, whether it holds a client of the pool,
\* how many times it released one, what its callback produced, its answer
Callers == {1, 2}

IdleCall == [pc |-> "idle", op |-> "none", arg |-> Null, held |-> FALSE,
             released |-> 0, out |-> Null, answer |-> Null]

\* MemStorage after its constructor: initializeSampleData() adds the admin
\* user with id 1
InitStorage ==
  [users |-> {[id |-> 1, username |-> "admin", password |-> <<"bcrypt", "password">>,
               role |-> "admin"]},
   userIdCounter |-> 2]

\* ------------------------------------------------------------- the store
Store == [users |-> users, departments |-> departments,
          employees |-> employees, payrolls |-> payrolls, seq |-> seq]

Ids(rows) == {r.id : r \in rows}

\* the rows created by initDatabase: the admin user and four departments
InitUsers == {[id |-> 1, username |-> "admin", firstName |-> "Admin", role |-> "admin"]}
InitDepartments == {[id |-> 1, name |-> "IT"], [id |-> 2, name |-> "HR"],
                    [id |-> 3, name |-> "Marketing"], [id |-> 4, name |-> "Finance"]}

\* what a callback run on a transaction's client leaves behind: the store as
\* the client sees it, the value returned, and the error raised (NoErr if none)
Done(db, result) == [db |-> db, result |-> result, err |-> NoErr]
Raise(db, e) == [db |-> db, result |-> Null, err |-> e]

\* withTransaction without the ROLLBACK: what the callback wrote before it
\* raised stays in the store
withTransaction_noRollback(pre, out, fault) ==
  IF out.err = NoErr
  THEN IF "COMMIT" \in fault
       THEN [db |-> pre, result |-> Null, err |-> "commit failed"]
       ELSE [db |-> out.db, result |-> out.result, err |-> NoErr]
  ELSE [db |-> out.db, result |-> Null, err |-> out.err]

\* withTransaction whose catch block rolls back but does not rethrow
withTransaction_swallow(pre, out, fault) ==
  IF out.err = NoErr
  THEN IF "COMMIT" \in fault
       THEN [db |-> pre, result |-> Null, err |-> "commit failed"]
       ELSE [db |-> out.db, result |-> out.result, err |-> NoErr]
  ELSE [db |-> pre, result |-> Null, err |-> NoErr]

\* SQLDatabase.withTransaction: pre is the committed store at BEGIN, out the
\* outcome of callback(client), fault the statements that reject.  An error
\* of the callback or of COMMIT is caught; the catch block runs ROLLBACK and
\* rethrows what it caught, unless ROLLBACK rejects: its error then leaves
\* the catch block instead, and the server discards the open transaction
withTransaction(pre, out, fault) ==
  LET caught == IF out.err # NoErr THEN out.err
                ELSE IF "COMMIT" \in fault THEN "commit failed" ELSE NoErr
  IN IF caught = NoErr
     THEN [db |-> out.db, result |-> out.result, err |-> NoErr]
     ELSE [db |-> pre, result |-> Null,
           err |-> IF "ROLLBACK" \in fault THEN "rollback failed" ELSE caught]

\* ----------------------------------------------------------------- users
\* callback of createUser: INSERT INTO users, username is UNIQUE
createUserWork(db, u) ==
  IF \E x \in db.users : x.username = u.username
  THEN Raise(db, "duplicate key value violates unique constraint")
  ELSE LET row == [id |-> db.seq.users, username |-> u.username,
                   firstName |-> u.firstName, role |-> u.role]
       IN Done([db EXCEPT !.users = @ \cup {row}, !.seq.users = @ + 1], row)

createUser(db, u, fault) == withTransaction(db, createUserWork(db, u), fault)

\* -------------------------------------------- registration, login, tokens
\* String.toLowerCase over the usernames of the model
Lower(s) == IF s = "Bob" THEN "bob" ELSE s

\* bcrypt.hash and bcrypt.compare: the hash verifies the password it was
\* made from and no other
hashPassword(password) == <<"bcrypt", password>>
verifyPassword(password, hashedPassword) == hashedPassword = hashPassword(password)

\* MemStorage.getUserByUsername: Array.find over the values of the Map, which
\* are in insertion order, compared in lower case
MemStorage_getUserByUsername(st, username) ==
  LET found == {u \in st.users : Lower(u.username) = Lower(username)}
  IN IF found = {} THEN Null
     ELSE Some(CHOOSE u \in found : \A v \in found : u.id <= v.id)

\* MemStorage.createUser: the next id of the counter, no test of the username
MemStorage_createUser(st, insertUser) ==
  LET user == [id |-> st.userIdCounter, username |-> insertUser.username,
               password |-> insertUser.password, role |-> insertUser.role]
  IN [storage |-> [users |-> st.users \cup {user},
                   userIdCounter |-> st.userIdCounter + 1],
      user |-> Some(user)]

\* registerUser with nothing running between its awaits
registerUser(st, userData) ==
  IF ~IsNull(MemStorage_getUserByUsername(st, userData.username))
  THEN [storage |-> st, err |-> "Username already exists", result |-> Null]
  ELSE LET r == MemStorage_createUser(st, [userData EXCEPT
                                             !.password = hashPassword(userData.password)])
       IN [storage |-> r.storage, err |-> NoErr, result |-> r.user]

\* generateToken and verifyToken: the payload signed into the token is the
\* payload read back from it
generateToken(user) == [userId |-> user.id, username |-> user.username, role |-> user.role]

\* loginUser
loginUser(st, loginData) ==
  LET user == MemStorage_getUserByUsername(st, loginData.username)
  IN IF IsNull(user) \/ ~verifyPassword(loginData.password, Val(user).password)
     THEN [err |-> "Invalid username or password", result |-> Null]
     ELSE [err |-> NoErr,
           result |-> Some([user |-> Val(user), token |-> generateToken(Val(user))])]

\* the middleware authenticate and authorizeAdmin; token is the token of the
\* request, if it carries one
authenticate(token) == IF IsNull(token) THEN "Authentication required" ELSE NoErr
authorizeAdmin(token) ==
  IF IsNull(token) \/ Val(token).role # "admin" THEN "Admin access required" ELSE NoErr

\* SQLDatabase.getUser
getUser(db, id) == {u \in db.users : u.id = id}

\* callback of updateUser: UPDATE users SET ... WHERE id = $n over the keys
\* of the patch; with no key the row is read and returned
updateUserWork(db, id, userData) ==
  IF DOMAIN userData = {} \/ ~\E r \in db.users : r.id = id
  THEN Done(db, {r \in db.users : r.id = id})
  ELSE LET old == CHOOSE r \in db.users : r.id = id
           new == [f \in DOMAIN old |-> IF f \in DOMAIN userData THEN userData[f] ELSE old[f]]
       IN Done([db EXCEPT !.users = (@ \ {old}) \cup {new}], {new})

updateUser(db, id, userData, fault) ==
  withTransaction(db, updateUserWork(db, id, userData), fault)

\* ------------------------------------------------------------- employees
\* callback of createEmployee: INSERT INTO employees; user_id and
\* department_id REFERENCE users(id) and departments(id)
createEmployeeWork(db, e) ==
  IF ~IsNull(e.userId) /\ Val(e.userId) \notin Ids(db.users)
  THEN Raise(db, "violates foreign key constraint employees_user_id_fkey")
  ELSE IF ~IsNull(e.departmentId) /\ Val(e.departmentId) \notin Ids(db.departments)
  THEN Raise(db, "violates foreign key constraint employees_department_id_fkey")
  ELSE LET row == [id |-> db.seq.employees, userId |-> e.userId,
                   departmentId |-> e.departmentId,
                   status |-> e.status, baseSalary |-> e.baseSalary]
       IN Done([db EXCEPT !.employees = @ \cup {row}, !.seq.employees = @ + 1], row)

createEmployee(db, e, fault) == withTransaction(db, createEmployeeWork(db, e), fault)

\* callback of updateEmployee: UPDATE employees SET ... WHERE id = $n over the
\* keys of the patch; the foreign keys of user_id and department_id are
\* checked on the new row
updateEmployeeWork(db, id, patch) ==
  IF DOMAIN patch = {} \/ ~\E r \in db.employees : r.id = id
  THEN Done(db, {r \in db.employees : r.id = id})
  ELSE LET old == CHOOSE r \in db.employees : r.id = id
           new == [f \in DOMAIN old |-> IF f \in DOMAIN patch THEN patch[f] ELSE old[f]]
       IN IF ~IsNull(new.userId) /\ Val(new.userId) \notin Ids(db.users)
          THEN Raise(db, "violates foreign key constraint employees_user_id_fkey")
          ELSE IF ~IsNull(new.departmentId) /\ Val(new.departmentId) \notin Ids(db.departments)
          THEN Raise(db, "violates foreign key constraint employees_department_id_fkey")
          ELSE Done([db EXCEPT !.employees = (@ \ {old}) \cup {new}], {new})

updateEmployee(db, id, patch, fault) ==
  withTransaction(db, updateEmployeeWork(db, id, patch), fault)

\* deleteEmployee that removes the employee's user as well
deleteEmployeeWork_dropsUser(db, id) ==
  LET db1 == [db EXCEPT !.payrolls = {p \in @ : p.employeeId # id}]
      linked == {Val(e.userId) : e \in {x \in db.employees : x.id = id /\ ~IsNull(x.userId)}}
  IN Done([db1 EXCEPT !.employees = {e \in @ : e.id # id},
                      !.users = {u \in @ : u.id \notin linked}],
          \E e \in db1.employees : e.id = id)

\* callback of deleteEmployee: the payrolls of the employee, then the employee
deleteEmployeeWork(db, id) ==
  LET db1 == [db EXCEPT !.payrolls = {p \in @ : p.employeeId # id}]
  IN IF \E p \in db1.payrolls : p.employeeId = id
     THEN Raise(db1, "violates foreign key constraint payrolls_employee_id_fkey")
     ELSE Done([db1 EXCEPT !.employees = {e \in @ : e.id # id}],
               \E e \in db1.employees : e.id = id)

deleteEmployee(db, id, fault) == withTransaction(db, deleteEmployeeWork(db, id), fault)

\* -------------------------------------------------------------- payrolls
\* the timestamp written by new Date() / CURRENT_TIMESTAMP
Now == "now"

\* the Payroll Calculation: gross - tax - other + bonuses, NULL counted as 0
OrZero(o) == IF IsNull(o) THEN 0 ELSE Val(o)
NetOf(gross, tax, other, bonuses) == gross - tax - OrZero(other) + OrZero(bonuses)

\* the trigger function with the employee test checking existence only
validate_payroll_data_anyStatus(db, new) ==
  IF ~\E e \in db.employees : e.id = new.employeeId
  THEN [err |-> "Employee ID does not exist or is not active", row |-> new]
  ELSE IF new.month < MinMonth \/ new.month > MaxMonth
  THEN [err |-> "Invalid month", row |-> new]
  ELSE IF new.year < MinYear \/ new.year > MaxYear
  THEN [err |-> "Invalid year", row |-> new]
  ELSE IF new.grossAmount <= 0
  THEN [err |-> "Gross amount must be positive", row |-> new]
  ELSE LET st == IF IsNull(new.status) THEN Some("pending") ELSE new.status
           at == IF st = Some("completed") /\ IsNull(new.processedAt)
                 THEN Some(Now) ELSE new.processedAt
       IN [err |-> NoErr, row |-> [new EXCEPT !.status = st, !.processedAt = at]]

\* the trigger function without the test of the gross amount
validate_payroll_data_grossUnchecked(db, new) ==
  IF ~\E e \in db.employees : e.id = new.employeeId /\ e.status = "active"
  THEN [err |-> "Employee ID does not exist or is not active", row |-> new]
  ELSE IF new.month < MinMonth \/ new.month > MaxMonth
  THEN [err |-> "Invalid month", row |-> new]
  ELSE IF new.year < MinYear \/ new.year > MaxYear
  THEN [err |-> "Invalid year", row |-> new]
  ELSE LET st == IF IsNull(new.status) THEN Some("pending") ELSE new.status
           at == IF st = Some("completed") /\ IsNull(new.processedAt)
                 THEN Some(Now) ELSE new.processedAt
       IN [err |-> NoErr, row |-> [new EXCEPT !.status = st, !.processedAt = at]]

\* trigger function validate_payroll_data (BEFORE INSERT ON payrolls):
\* raises, or returns NEW with status and processed_at normalised
validate_payroll_data(db, new) ==
  IF ~\E e \in db.employees : e.id = new.employeeId /\ e.status = "active"
  THEN [err |-> "Employee ID does not exist or is not active", row |-> new]
  ELSE IF new.month < MinMonth \/ new.month > MaxMonth
  THEN [err |-> "Invalid month", row |-> new]
  ELSE IF new.year < MinYear \/ new.year > MaxYear
  THEN [err |-> "Invalid year", row |-> new]
  ELSE IF new.grossAmount <= 0
  THEN [err |-> "Gross amount must be positive", row |-> new]
  ELSE LET st == IF IsNull(new.status) THEN Some("pending") ELSE new.status
           at == IF st = Some("completed") /\ IsNull(new.processedAt)
                 THEN Some(Now) ELSE new.processedAt
       IN [err |-> NoErr, row |-> [new EXCEPT !.status = st, !.processedAt = at]]

\* INSERT INTO payrolls under a UNIQUE (employee_id, month, year) constraint
insertPayroll_uniquePeriod(db, new) ==
  LET t == validate_payroll_data(db, new)
  IN IF t.err # NoErr THEN Raise(db, t.err)
     ELSE IF \E p \in db.payrolls : /\ p.employeeId = new.employeeId
                                     /\ p.month = new.month /\ p.year = new.year
     THEN Raise(db, "duplicate key value violates unique constraint")
     ELSE IF new.employeeId \notin Ids(db.employees)
     THEN Raise(db, "violates foreign key constraint payrolls_employee_id_fkey")
     ELSE IF ~IsNull(new.processedBy) /\ Val(new.processedBy) \notin Ids(db.users)
     THEN Raise(db, "violates foreign key constraint payrolls_processed_by_fkey")
     ELSE LET row == [id |-> db.seq.payrolls, employeeId |-> t.row.employeeId,
                      month |-> t.row.month, year |-> t.row.year,
                      grossAmount |-> t.row.grossAmount,
                      taxDeductions |-> t.row.taxDeductions,
                      otherDeductions |-> t.row.otherDeductions,
                      netAmount |-> t.row.netAmount,
                      bonuses |-> t.row.bonuses,
                      status |-> Val(t.row.status),
                      processedAt |-> t.row.processedAt,
                      processedBy |-> t.row.processedBy]
          IN Done([db EXCEPT !.payrolls = @ \cup {row}, !.seq.payrolls = @ + 1], row)

\* INSERT INTO payrolls: the trigger, then the foreign keys of the payrolls
\* table, then the row with the next id of the SERIAL column
insertPayroll(db, new) ==
  LET t == validate_payroll_data(db, new)
  IN IF t.err # NoErr THEN Raise(db, t.err)
     ELSE IF new.employeeId \notin Ids(db.employees)
     THEN Raise(db, "violates foreign key constraint payrolls_employee_id_fkey")
     ELSE IF ~IsNull(new.processedBy) /\ Val(new.processedBy) \notin Ids(db.users)
     THEN Raise(db, "violates foreign key constraint payrolls_processed_by_fkey")
     ELSE LET row == [id |-> db.seq.payrolls, employeeId |-> t.row.employeeId,
                      month |-> t.row.month, year |-> t.row.year,
                      grossAmount |-> t.row.grossAmount,
                      taxDeductions |-> t.row.taxDeductions,
                      otherDeductions |-> t.row.otherDeductions,
                      netAmount |-> t.row.netAmount,
                      bonuses |-> t.row.bonuses,
                      status |-> Val(t.row.status),
                      processedAt |-> t.row.processedAt,
                      processedBy |-> t.row.processedBy]
          IN Done([db EXCEPT !.payrolls = @ \cup {row}, !.seq.payrolls = @ + 1], row)

\* createPayroll whose calculation leaves the bonuses out
createPayrollWork_ignoresBonuses(db, p) ==
  LET netAmount == IF IsNull(p.netAmount)
                   THEN NetOf(p.grossAmount, p.taxDeductions, p.otherDeductions, Null)
                   ELSE Val(p.netAmount)
  IN insertPayroll(db, [employeeId |-> p.employeeId, month |-> p.month, year |-> p.year,
                        grossAmount |-> p.grossAmount, taxDeductions |-> p.taxDeductions,
                        otherDeductions |-> p.otherDeductions, netAmount |-> netAmount,
                        bonuses |-> p.bonuses,
                        status |-> IF IsNull(p.status) THEN Some("pending") ELSE p.status,
                        processedAt |-> IF IsNull(p.processedAt) THEN Some(Now) ELSE p.processedAt,
                        processedBy |-> p.processedBy])

\* callback of createPayroll: the net amount is calculated only when the
\* caller gave none (!netAmount), then the row is inserted
createPayrollWork(db, p) ==
  LET netAmount == IF IsNull(p.netAmount)
                   THEN NetOf(p.grossAmount, p.taxDeductions, p.otherDeductions, p.bonuses)
                   ELSE Val(p.netAmount)
  IN insertPayroll(db, [employeeId |-> p.employeeId, month |-> p.month, year |-> p.year,
                        grossAmount |-> p.grossAmount, taxDeductions |-> p.taxDeductions,
                        otherDeductions |-> p.otherDeductions, netAmount |-> netAmount,
                        bonuses |-> p.bonuses,
                        status |-> IF IsNull(p.status) THEN Some("pending") ELSE p.status,
                        processedAt |-> IF IsNull(p.processedAt) THEN Some(Now) ELSE p.processedAt,
                        processedBy |-> p.processedBy])

createPayroll(db, p, fault) == withTransaction(db, createPayrollWork(db, p), fault)

\* a SET clause that also stamps processed_at whenever the status is written
MergePatch_stampsProcessedAt(row, patch) ==
  [f \in DOMAIN row |-> IF f \in DOMAIN patch THEN patch[f]
                        ELSE IF f = "processedAt" /\ "status" \in DOMAIN patch
                        THEN Some("later") ELSE row[f]]

\* SET clause of updatePayroll: the columns named by the patch get the
\* patch's value, every other column keeps its own
MergePatch(row, patch) ==
  [f \in DOMAIN row |-> IF f \in DOMAIN patch THEN patch[f] ELSE row[f]]

\* callback of updatePayroll: UPDATE payrolls SET ... WHERE id = $n; no
\* trigger runs on UPDATE, the foreign keys do
updatePayrollWork(db, id, patch) ==
  IF DOMAIN patch = {} \/ ~\E r \in db.payrolls : r.id = id
  THEN Done(db, {r \in db.payrolls : r.id = id})
  ELSE LET old == CHOOSE r \in db.payrolls : r.id = id
           new == MergePatch(old, patch)
       IN IF new.employeeId \notin Ids(db.employees)
          THEN Raise(db, "violates foreign key constraint payrolls_employee_id_fkey")
          ELSE IF ~IsNull(new.processedBy) /\ Val(new.processedBy) \notin Ids(db.users)
          THEN Raise(db, "violates foreign key constraint payrolls_processed_by_fkey")
          ELSE Done([db EXCEPT !.payrolls = (@ \ {old}) \cup {new}], {new})

updatePayroll(db, id, patch, fault) ==
  withTransaction(db, updatePayrollWork(db, id, patch), fault)

\* a deletePayroll that raises when no row has the id
deletePayrollWork_raisesMissing(db, id) ==
  IF id \notin Ids(db.payrolls) THEN Raise(db, "Payroll not found")
  ELSE Done([db EXCEPT !.payrolls = {p \in @ : p.id # id}], TRUE)

\* callback of deletePayroll: DELETE FROM payrolls WHERE id = $1, answering
\* rowCount > 0; no table references payrolls
deletePayrollWork(db, id) ==
  Done([db EXCEPT !.payrolls = {p \in @ : p.id # id}], id \in Ids(db.payrolls))

deletePayroll(db, id, fault) == withTransaction(db, deletePayrollWork(db, id), fault)

\* SQL function process_payroll: calculates the net amount and inserts a
\* completed payroll (the trigger validates it)
process_payroll(db, a) ==
  insertPayroll(db, [employeeId |-> a.employeeId, month |-> a.month, year |-> a.year,
                     grossAmount |-> a.grossAmount, taxDeductions |-> a.taxDeductions,
                     otherDeductions |-> a.otherDeductions,
                     netAmount |-> NetOf(a.grossAmount, a.taxDeductions,
                                         a.otherDeductions, a.bonuses),
                     bonuses |-> a.bonuses, status |-> Some("completed"),
                     processedAt |-> Some(Now), processedBy |-> a.processedBy])

\* the eligible employees of a bulk run: active, no payroll for the period
Eligible(db, month, year) ==
  {e \in db.employees :
     /\ e.status = "active"
     /\ ~\E p \in db.payrolls : p.employeeId = e.id /\ p.month = month /\ p.year = year}

MinId(rows) == CHOOSE i \in Ids(rows) : \A j \in Ids(rows) : i <= j

\* SQL function process_monthly_payroll: one process_payroll per eligible
\* employee, in id order, on the employee's base salary; the first failure
\* raises out of the function
RECURSIVE monthlyLoop(_, _, _, _, _, _)
monthlyLoop(db, todo, month, year, by, done) ==
  IF todo = {} THEN Done(db, done)
  ELSE LET e == CHOOSE x \in todo : x.id = MinId(todo)
           r == process_payroll(db, [employeeId |-> e.id, month |-> month, year |-> year,
                                     grossAmount |-> e.baseSalary, taxDeductions |-> 0,
                                     otherDeductions |-> Null, bonuses |-> Null,
                                     processedBy |-> by])
       IN IF r.err # NoErr THEN Raise(r.db, r.err)
          ELSE monthlyLoop(r.db, todo \ {e}, month, year, by, done \cup {e.id})

process_monthly_payroll(db, month, year, by) ==
  monthlyLoop(db, Eligible(db, month, year), month, year, by, {})

\* callback of processMonthlyPayroll: the function call; its error is
\* rethrown as 'Failed to process monthly payroll: ...'
processMonthlyPayrollWork(db, month, year, by) ==
  LET r == process_monthly_payroll(db, month, year, by)
  IN IF r.err # NoErr THEN Raise(r.db, "Failed to process monthly payroll") ELSE r

processMonthlyPayroll(db, month, year, by, fault) ==
  withTransaction(db, processMonthlyPayrollWork(db, month, year, by), fault)

\* ------------------------------------------------------------ aggregation
\* SUM(CAST(col AS DECIMAL)) over a set of rows
RECURSIVE SumField(_, _)
SumField(rows, col) ==
  IF rows = {} THEN 0
  ELSE LET r == CHOOSE x \in rows : TRUE
       IN r[col] + SumField(rows \ {r}, col)

ActiveEmployees(db) == {e \in db.employees : e.status = "active"}

\* SELECT COUNT(*) FROM employees WHERE status = 'active'
activeCount(db) == Cardinality(ActiveEmployees(db))

\* AVG(CAST(base_salary AS DECIMAL)) over the active employees, in
\* hundredths: NULL when there is none
avgSalary(db) ==
  IF ActiveEmployees(db) = {} THEN Null
  ELSE Some((SumField(ActiveEmployees(db), "baseSalary") * 100)
              \div Cardinality(ActiveEmployees(db)))

\* COALESCE(x, 0) and parseFloat(x || '0')
Coalesce(o) == IF IsNull(o) THEN 0 ELSE Val(o)

\* SELECT COALESCE(SUM(CAST(net_amount AS DECIMAL)), 0) FROM payrolls
\* WHERE month = $1 AND year = $2
payrollSum(db, month, year) ==
  SumField({p \in db.payrolls : p.month = month /\ p.year = year}, "netAmount")

\* SELECT COUNT(*) FROM payrolls WHERE status = 'pending'
pendingCount(db) == Cardinality({p \in db.payrolls : p.status = "pending"})

\* the view with average_salary taken over the period's net amounts
payroll_summary_view_averagePayroll(db, month, year) ==
  LET rows == {p \in db.payrolls : p.month = month /\ p.year = year}
  IN IF rows = {} THEN {}
     ELSE {[month |-> month, year |-> year,
            total_payroll |-> SumField(rows, "netAmount"),
            average_salary |-> Some((SumField(rows, "netAmount") * 100)
                                      \div Cardinality(rows))]}

\* SELECT * FROM payroll_summary_view WHERE month = $1 AND year = $2: one row
\* per (month, year) that has a payroll, none otherwise
payroll_summary_view(db, month, year) ==
  LET rows == {p \in db.payrolls : p.month = month /\ p.year = year}
  IN IF rows = {} THEN {}
     ELSE {[month |-> month, year |-> year,
            total_payroll |-> SumField(rows, "netAmount"),
            average_salary |-> avgSalary(db)]}

\* callback of getDashboardSummary, run on one state of the store.  today is
\* the period of new Date(); viewOk is whether the query on the view
\* succeeds.  When it raises, the catch block queries the same client, whose
\* transaction PostgreSQL has aborted: that query raises in its turn
getDashboardSummaryWork(db, today, viewOk) ==
  IF ~viewOk
  THEN Raise(db, "current transaction is aborted")
  ELSE LET summaryView == payroll_summary_view(db, today.month, today.year)
           row == CHOOSE r \in summaryView : TRUE
       IN Done(db, [employeeCount |-> activeCount(db),
                    totalPayroll |-> IF summaryView # {} THEN row.total_payroll
                                     ELSE payrollSum(db, today.month, today.year),
                    averageSalary |-> IF summaryView # {} THEN Coalesce(row.average_salary)
                                      ELSE Coalesce(avgSalary(db)),
                    pendingCount |-> pendingCount(db)])

getDashboardSummary(db, today, viewOk, fault) ==
  withTransaction(db, getDashboardSummaryWork(db, today, viewOk), fault)

\* Math.round((count / total) * 100)
Percentage(count, total) ==
  IF total > 0 THEN (200 * count + total) \div (2 * total) ELSE 0

\* SELECT e.department_id, d.name, COUNT(*) FROM employees e JOIN departments d
\* ON e.department_id = d.id WHERE e.status = 'active' GROUP BY ...
departmentCounts(db) ==
  {[id |-> d.id, name |-> d.name,
    count |-> Cardinality({e \in ActiveEmployees(db) : e.departmentId = Some(d.id)})] :
     d \in {x \in db.departments :
              \E e \in ActiveEmployees(db) : e.departmentId = Some(x.id)}}

\* callback of getDepartmentDistribution, run on one state of the store
getDepartmentDistributionWork(db) ==
  Done(db, {[id |-> c.id, name |-> c.name, count |-> c.count,
             percentage |-> Percentage(c.count, activeCount(db))] :
              c \in departmentCounts(db)})

getDepartmentDistribution(db, fault) ==
  withTransaction(db, getDepartmentDistributionWork(db), fault)

\* the queries of the two aggregate reads
SummaryQueries == {"employees", "view", "sum", "average", "pending"}
DistributionQueries == {"counts", "total"}

\* whether a run of getDashboardSummary on db issues query q: the sum and the
\* average are queried only when the view has no row for the period
Issued(db, today, q) ==
  q \in {"sum", "average"} => payroll_summary_view(db, today.month, today.year) = {}

\* a getDashboardSummary whose catch block answers zeros for the figures of
\* the view
getDashboardSummaryFailing_zeros(db, today, q) ==
  IF q = "view"
  THEN Done(db, [employeeCount |-> activeCount(db), totalPayroll |-> 0,
                 averageSalary |-> 0, pendingCount |-> pendingCount(db)])
  ELSE IF Issued(db, today, q) THEN Raise(db, "query failed")
  ELSE getDashboardSummaryWork(db, today, TRUE)

\* callback of getDashboardSummary when query q raises if it is issued.  The
\* count of employees and the count of pending payrolls are outside any
\* try: their error leaves the callback.  The query on the view, and the sum
\* and average of the else branch, are inside the try: the catch block
\* queries the sum again on the same client, whose transaction PostgreSQL has
\* aborted, and that query raises
getDashboardSummaryFailing(db, today, q) ==
  IF q = "view" THEN getDashboardSummaryWork(db, today, FALSE)
  ELSE IF ~Issued(db, today, q) THEN getDashboardSummaryWork(db, today, TRUE)
  ELSE IF q \in {"sum", "average"} THEN Raise(db, "current transaction is aborted")
  ELSE Raise(db, "query failed")

\* callback of getDepartmentDistribution when query q raises: no try
\* surrounds either query
getDepartmentDistributionFailing(db, q) == Raise(db, "query failed")

\* ------------------------------------------------------------ the actions
\* the committed store and the answer of the call that produced it; last is
\* what the caller of the most recent call holds: the call, its input, the
\* outcome of its COMMIT / ROLLBACK, the error raised and the value returned
SetStore(db) ==
  /\ users' = db.users
  /\ departments' = db.departments
  /\ employees' = db.employees
  /\ payrolls' = db.payrolls
  /\ seq' = db.seq

\* a read in progress on another client notes the committed states the
\* store goes through while it runs
Observed(db) ==
  IF reader.pc \in {"idle", "done"} THEN reader
  ELSE [reader EXCEPT !.seen = @ \cup {db}]

\* a call that is one transaction from BEGIN to COMMIT, taken in one step
Commit(db) ==
  /\ SetStore(db)
  /\ txn' = txn
  /\ reader' = Observed(db)
  /\ UNCHANGED <<storage, calls>>

\* POST /api/employees: create the user when isNewUser and no userId is
\* given, then the employee; any error is answered 400.  result is the id of
\* the user the request created, if it created one
PostEmployee(body, fault1, fault2) ==
  /\ seq.employees <= MaxEmployees
  /\ LET newUser == body.isNewUser /\ IsNull(body.userId)
         r1 == IF newUser
               THEN createUser(Store, [username |-> body.username, firstName |-> body.firstName,
                                       role |-> "employee"], fault1)
               ELSE [db |-> Store, result |-> Null, err |-> NoErr]
         userId == IF newUser /\ r1.err = NoErr THEN Some(r1.result.id) ELSE body.userId
         employeeData == [userId |-> userId, departmentId |-> body.departmentId,
                          status |-> IF IsNull(body.status) THEN "active" ELSE Val(body.status),
                          baseSalary |-> body.baseSalary]
         r2 == IF r1.err = NoErr THEN createEmployee(r1.db, employeeData, fault2)
               ELSE [db |-> r1.db, result |-> Null, err |-> r1.err]
     IN /\ Commit(r2.db)
        /\ last' = [op |-> "POST /api/employees", arg |-> body,
                    fault |-> <<fault1, fault2>>, err |-> r2.err,
                    result |-> IF newUser /\ r1.err = NoErr THEN Some(r1.result.id) ELSE Null]

\* the handler of POST /api/employees as a function of the store
postEmployee(db, body, fault1, fault2) ==
  LET newUser == body.isNewUser /\ IsNull(body.userId)
      r1 == IF newUser
            THEN createUser(db, [username |-> body.username, firstName |-> body.firstName,
                                 role |-> "employee"], fault1)
            ELSE [db |-> db, result |-> Null, err |-> NoErr]
      userId == IF newUser /\ r1.err = NoErr THEN Some(r1.result.id) ELSE body.userId
      employeeData == [userId |-> userId, departmentId |-> body.departmentId,
                       status |-> IF IsNull(body.status) THEN "active" ELSE Val(body.status),
                       baseSalary |-> body.baseSalary]
      r2 == IF r1.err = NoErr THEN createEmployee(r1.db, employeeData, fault2)
            ELSE [db |-> r1.db, result |-> Null, err |-> r1.err]
  IN [db |-> r2.db, err |-> r2.err,
      result |-> IF newUser /\ r1.err = NoErr THEN Some(r1.result.id) ELSE Null]

\* POST /api/employees with its middleware: authenticate, then the handler.
\* token is the token of the request, if it carries one
PostEmployeeRoute(token, body) ==
  /\ seq.employees <= MaxEmployees
  /\ LET r == IF authenticate(token) # NoErr
              THEN [db |-> Store, err |-> authenticate(token), result |-> Null]
              ELSE postEmployee(Store, body, NoFault, NoFault)
     IN /\ Commit(r.db)
        /\ last' = [op |-> "POST /api/employees", arg |-> [token |-> token, body |-> body],
                    fault |-> NoFault, err |-> r.err, result |-> r.result]

\* the keys of a request body that PATCH /api/employees/:id hands to
\* updateUser and to updateEmployee
UserKeys == {"firstName"}
EmployeeKeys == {"departmentId", "baseSalary", "status"}
Restrict(body, keys) == [k \in DOMAIN body \cap keys |-> body[k]]

\* the handler of PATCH /api/employees/:id: the employee is read; when it has
\* a user and the body names a user field, updateUser; then updateEmployee.
\* Each call is a transaction of its own and any error is answered 400
patchEmployee(db, id, body, fault1, fault2) ==
  IF id \notin Ids(db.employees)
  THEN [db |-> db, err |-> "Employee not found", result |-> {}]
  ELSE LET employee == CHOOSE e \in db.employees : e.id = id
           r1 == IF ~IsNull(employee.userId) /\ DOMAIN body \cap UserKeys # {}
                 THEN updateUser(db, Val(employee.userId), Restrict(body, UserKeys), fault1)
                 ELSE [db |-> db, result |-> Null, err |-> NoErr]
           r2 == IF r1.err = NoErr
                 THEN updateEmployee(r1.db, id, Restrict(body, EmployeeKeys), fault2)
                 ELSE [db |-> r1.db, result |-> Null, err |-> r1.err]
       IN [db |-> r2.db, err |-> r2.err,
           result |-> IF r2.err = NoErr THEN {e \in r2.db.employees : e.id = id} ELSE {}]

\* PATCH /api/employees/:id
PatchEmployee(id, body, fault1, fault2) ==
  LET r == patchEmployee(Store, id, body, fault1, fault2)
  IN /\ Commit(r.db)
     /\ last' = [op |-> "PATCH /api/employees/:id", arg |-> [id |-> id, body |-> body],
                 fault |-> <<fault1, fault2>>, err |-> r.err, result |-> r.result]

\* a call that leaves the SQL store and the calls in progress alone
AuthStep(st) ==
  /\ storage' = st
  /\ UNCHANGED <<users, departments, employees, payrolls, seq, txn, reader, calls>>

\* POST /api/auth/register with no other request between its awaits
RegisterUser(userData) ==
  /\ storage.userIdCounter <= MaxEmployees + 1
  /\ LET r == registerUser(storage, userData)
     IN /\ AuthStep(r.storage)
        /\ last' = [op |-> "registerUser", arg |-> userData, fault |-> NoFault,
                    err |-> r.err, result |-> r.result]

\* POST /api/auth/login
LoginUser(loginData) ==
  /\ LET r == loginUser(storage, loginData)
     IN last' = [op |-> "loginUser", arg |-> loginData, fault |-> NoFault,
                 err |-> r.err, result |-> r.result]
  /\ AuthStep(storage)

\* the tokens a request can carry: none, or the one the login just issued
Tokens ==
  {Null} \cup (IF last.op = "loginUser" /\ last.err = NoErr
               THEN {Some(Val(last.result).token)} ELSE {})

\* GET /api/auth/me: authenticate, then database.getUser(req.user.userId)
GetMe(token) ==
  /\ LET user == IF IsNull(token) THEN {} ELSE getUser(Store, Val(token).userId)
     IN last' = [op |-> "GET /api/auth/me", arg |-> token, fault |-> NoFault,
                 err |-> IF authenticate(token) # NoErr THEN authenticate(token)
                         ELSE IF user = {} THEN "User not found" ELSE NoErr,
                 result |-> user]
  /\ AuthStep(storage)

\* SQLDatabase.updateEmployee
UpdateEmployee(id, patch, fault) ==
  LET r == updateEmployee(Store, id, patch, fault)
  IN /\ Commit(r.db)
     /\ last' = [op |-> "updateEmployee", arg |-> [id |-> id, patch |-> patch],
                 fault |-> fault, err |-> r.err, result |-> r.result]

\* SQLDatabase.deleteEmployee
DeleteEmployee(id, fault) ==
  LET r == deleteEmployee(Store, id, fault)
  IN /\ Commit(r.db)
     /\ last' = [op |-> "deleteEmployee", arg |-> id, fault |-> fault,
                 err |-> r.err, result |-> r.result]

\* SQLDatabase.createPayroll
CreatePayroll(p, fault) ==
  /\ seq.payrolls <= MaxPayrolls
  /\ LET r == createPayroll(Store, p, fault)
     IN /\ Commit(r.db)
        /\ last' = [op |-> "createPayroll", arg |-> p, fault |-> fault,
                    err |-> r.err, result |-> r.result]

\* SQLDatabase.updatePayroll
UpdatePayroll(id, patch, fault) ==
  LET r == updatePayroll(Store, id, patch, fault)
  IN /\ Commit(r.db)
     /\ last' = [op |-> "updatePayroll", arg |-> [id |-> id, patch |-> patch],
                 fault |-> fault, err |-> r.err, result |-> r.result]

\* SQLDatabase.deletePayroll
DeletePayroll(id, fault) ==
  LET r == deletePayroll(Store, id, fault)
  IN /\ Commit(r.db)
     /\ last' = [op |-> "deletePayroll", arg |-> id, fault |-> fault,
                 err |-> r.err, result |-> r.result]

\* SQLDatabase.processMonthlyPayroll
ProcessMonthlyPayroll(month, year, by, fault) ==
  /\ seq.payrolls + Cardinality(Eligible(Store, month, year)) <= MaxPayrolls + 1
  /\ LET r == processMonthlyPayroll(Store, month, year, by, fault)
     IN /\ Commit(r.db)
        /\ last' = [op |-> "processMonthlyPayroll",
                    arg |-> [month |-> month, year |-> year, by |-> by],
                    fault |-> fault, err |-> r.err, result |-> r.result]

\* SQLDatabase.getDashboardSummary with no other transaction in between
GetDashboardSummary(today, viewOk, fault) ==
  LET r == getDashboardSummary(Store, today, viewOk, fault)
  IN /\ Commit(r.db)
     /\ last' = [op |-> "getDashboardSummary",
                 arg |-> [today |-> today, viewOk |-> viewOk],
                 fault |-> fault, err |-> r.err, result |-> r.result]

\* SQLDatabase.getDepartmentDistribution with no other transaction in between
GetDepartmentDistribution(fault) ==
  LET r == getDepartmentDistribution(Store, fault)
  IN /\ Commit(r.db)
     /\ last' = [op |-> "getDepartmentDistribution", arg |-> Null,
                 fault |-> fault, err |-> r.err, result |-> r.result]

\* SQLDatabase.getDashboardSummary, one of its queries failing
GetDashboardSummaryFailing(today, q, fault) ==
  LET r == withTransaction(Store, getDashboardSummaryFailing(Store, today, q), fault)
  IN /\ Commit(r.db)
     /\ last' = [op |-> "getDashboardSummary", arg |-> [today |-> today, failed |-> q],
                 fault |-> fault, err |-> r.err, result |-> r.result]

\* SQLDatabase.getDepartmentDistribution, one of its queries failing
GetDepartmentDistributionFailing(q, fault) ==
  LET r == withTransaction(Store, getDepartmentDistributionFailing(Store, q), fault)
  IN /\ Commit(r.db)
     /\ last' = [op |-> "getDepartmentDistribution", arg |-> [failed |-> q],
                 fault |-> fault, err |-> r.err, result |-> r.result]

\* ------------------------------------ the aggregate reads, query by query
\* BEGIN opens a READ COMMITTED transaction (the pool sets no isolation
\* level): each query of the callback reads the store as committed when the
\* query runs.  A step of the reader changes neither the store nor txn
ReaderStep(r) ==
  /\ reader' = r
  /\ UNCHANGED <<users, departments, employees, payrolls, seq, txn, storage, calls>>

\* getDashboardSummary: BEGIN and the count of the active employees
SummaryCount(today) ==
  /\ reader.pc \in {"idle", "done"}
  /\ ReaderStep([pc |-> "view", op |-> "getDashboardSummary",
                 acc |-> [today |-> today, employeeCount |-> activeCount(Store)],
                 seen |-> {Store}])
  /\ UNCHANGED last

\* getDashboardSummary: the query on payroll_summary_view
SummaryView ==
  /\ reader.pc = "view"
  /\ LET summaryView == payroll_summary_view(Store, reader.acc.today.month,
                                             reader.acc.today.year)
         row == CHOOSE r \in summaryView : TRUE
     IN IF summaryView # {}
        THEN ReaderStep([reader EXCEPT
               !.pc = "pending",
               !.acc = [today |-> @.today, employeeCount |-> @.employeeCount,
                        totalPayroll |-> row.total_payroll,
                        averageSalary |-> Coalesce(row.average_salary)]])
        ELSE ReaderStep([reader EXCEPT !.pc = "sum"])
  /\ UNCHANGED last

\* getDashboardSummary: the sum of the period's net amounts (no row in the view)
SummarySum ==
  /\ reader.pc = "sum"
  /\ ReaderStep([reader EXCEPT
       !.pc = "average",
       !.acc = [today |-> @.today, employeeCount |-> @.employeeCount,
                totalPayroll |-> payrollSum(Store, @.today.month, @.today.year)]])
  /\ UNCHANGED last

\* getDashboardSummary: the average salary (no row in the view)
SummaryAverage ==
  /\ reader.pc = "average"
  /\ ReaderStep([reader EXCEPT
       !.pc = "pending",
       !.acc = [today |-> @.today, employeeCount |-> @.employeeCount,
                totalPayroll |-> @.totalPayroll,
                averageSalary |-> Coalesce(avgSalary(Store))]])
  /\ UNCHANGED last

\* getDashboardSummary: the count of the pending payrolls, COMMIT, return
SummaryPending ==
  /\ reader.pc = "pending"
  /\ LET result == [employeeCount |-> reader.acc.employeeCount,
                    totalPayroll |-> reader.acc.totalPayroll,
                    averageSalary |-> reader.acc.averageSalary,
                    pendingCount |-> pendingCount(Store)]
     IN /\ ReaderStep([reader EXCEPT !.pc = "done", !.acc = result])
        /\ last' = [op |-> "getDashboardSummary",
                    arg |-> [today |-> reader.acc.today, viewOk |-> TRUE],
                    fault |-> NoFault, err |-> NoErr, result |-> result]

\* getDepartmentDistribution: BEGIN and the counts by department
DistributionCounts ==
  /\ reader.pc \in {"idle", "done"}
  /\ ReaderStep([pc |-> "total", op |-> "getDepartmentDistribution",
                 acc |-> departmentCounts(Store), seen |-> {Store}])
  /\ UNCHANGED last

\* getDepartmentDistribution: the total, the percentages, COMMIT, return
DistributionTotal ==
  /\ reader.pc = "total"
  /\ LET result == {[id |-> c.id, name |-> c.name, count |-> c.count,
                     percentage |-> Percentage(c.count, activeCount(Store))] :
                      c \in reader.acc}
     IN /\ ReaderStep([reader EXCEPT !.pc = "done", !.acc = result])
        /\ last' = [op |-> "getDepartmentDistribution", arg |-> Null,
                    fault |-> NoFault, err |-> NoErr, result |-> result]

\* ------------------------------------- transactions, statement by statement
\* rows of the store without those a transaction has deleted
Without(db, del) ==
  [db EXCEPT !.payrolls = {p \in @ : p.id \notin del.payrolls},
             !.employees = {e \in @ : e.id \notin del.employees},
             !.departments = {d \in @ : d.id \notin del.departments}]

\* a DELETE that is committed on its own, with no BEGIN before it
clientDelete_autocommit(db, t, table, ids) ==
  [store |-> Without(db, [t.deleted EXCEPT ![table] = @ \cup ids]),
   txn |-> [t EXCEPT !.deleted[table] = @ \cup ids]]

\* a DELETE run on the client of withTransaction between BEGIN and COMMIT:
\* the rows are deleted for this transaction, the committed store keeps them
clientDelete(db, t, table, ids) ==
  [store |-> db, txn |-> [t EXCEPT !.deleted[table] = @ \cup ids]]

\* the foreign key left unchecked when an employee row is deleted
employeeReferenced_unchecked(db, t, id) == FALSE

\* the foreign key of payrolls.employee_id, checked when an employee row is
\* deleted: a committed payroll of the employee that this transaction has
\* not deleted
employeeReferenced(db, t, id) ==
  \E p \in db.payrolls : p.employeeId = id /\ p.id \notin t.deleted.payrolls

\* the foreign key left unchecked when a department row is deleted
departmentReferenced_unchecked(db, id) == FALSE

\* the foreign key of employees.department_id, checked when a department row
\* is deleted
departmentReferenced(db, id) ==
  \E e \in db.employees : e.departmentId = Some(id)

\* the row locks of the transaction in progress: an INSERT or UPDATE that
\* references a row it has deleted waits for its COMMIT or ROLLBACK
LockedEmployee(id) == id \in txn.deleted.employees
LockedDepartment(o) == ~IsNull(o) /\ Val(o) \in txn.deleted.departments
LockedPayroll(id) == id \in txn.deleted.payrolls

\* a statement of the transaction in progress
TxnStep(db, t) ==
  /\ SetStore(db)
  /\ txn' = t
  /\ reader' = Observed(db)
  /\ UNCHANGED <<storage, calls>>

\* the statement raised: the catch block of withTransaction rolls back and
\* rethrows
TxnRaise(op, id, e) ==
  /\ TxnStep(Store, IdleTxn)
  /\ last' = [op |-> op, arg |-> id, fault |-> NoFault, err |-> e, result |-> Null]

\* deleteEmployee: BEGIN and DELETE FROM payrolls WHERE employee_id = $1
DeletePayrollsStmt(id) ==
  /\ txn.pc = "idle"
  /\ LET r == clientDelete(Store, [IdleTxn EXCEPT !.op = "deleteEmployee", !.id = id],
                           "payrolls", Ids({p \in payrolls : p.employeeId = id}))
     IN TxnStep(r.store, [r.txn EXCEPT !.pc = "employee"])
  /\ UNCHANGED last

\* deleteEmployee: DELETE FROM employees WHERE id = $1
DeleteEmployeeStmt ==
  /\ txn.pc = "employee"
  /\ IF employeeReferenced(Store, txn, txn.id)
     THEN TxnRaise("deleteEmployee", txn.id,
                   "violates foreign key constraint payrolls_employee_id_fkey")
     ELSE LET r == clientDelete(Store, txn, "employees", {txn.id} \cap Ids(employees))
          IN /\ TxnStep(r.store, [r.txn EXCEPT !.pc = "commit",
                                               !.result = txn.id \in Ids(employees)])
             /\ UNCHANGED last

\* deleteDepartment: BEGIN and SELECT COUNT(*) FROM employees WHERE
\* department_id = $1
CountEmployeesStmt(id) ==
  /\ txn.pc = "idle"
  /\ IF \E e \in employees : e.departmentId = Some(id)
     THEN TxnRaise("deleteDepartment", id,
                   "Cannot delete department with assigned employees")
     ELSE /\ TxnStep(Store, [IdleTxn EXCEPT !.pc = "department",
                                            !.op = "deleteDepartment", !.id = id])
          /\ UNCHANGED last

\* deleteDepartment: DELETE FROM departments WHERE id = $1
DeleteDepartmentStmt ==
  /\ txn.pc = "department"
  /\ IF departmentReferenced(Store, txn.id)
     THEN TxnRaise("deleteDepartment", txn.id,
                   "violates foreign key constraint employees_department_id_fkey")
     ELSE LET r == clientDelete(Store, txn, "departments", {txn.id} \cap Ids(departments))
          IN /\ TxnStep(r.store, [r.txn EXCEPT !.pc = "commit",
                                               !.result = txn.id \in Ids(departments)])
             /\ UNCHANGED last

\* COMMIT of the transaction in progress, and the return of its call
CommitTxn(fault) ==
  /\ txn.pc = "commit"
  /\ LET r == withTransaction(Store, Done(Without(Store, txn.deleted), txn.result), fault)
     IN /\ TxnStep(r.db, IdleTxn)
        /\ last' = [op |-> txn.op, arg |-> txn.id, fault |-> fault,
                    err |-> r.err, result |-> r.result]

\* SQLDatabase.getPayrollsByEmployeeId: one SELECT on the pool
GetPayrollsByEmployeeId(id) ==
  /\ last' = [op |-> "getPayrollsByEmployeeId", arg |-> id, fault |-> NoFault,
              err |-> NoErr, result |-> {p \in payrolls : p.employeeId = id}]
  /\ UNCHANGED <<users, departments, employees, payrolls, seq, txn, reader, storage, calls>>

\* SQLDatabase.getEmployee: one SELECT on the pool
GetEmployee(id) ==
  /\ last' = [op |-> "getEmployee", arg |-> id, fault |-> NoFault,
              err |-> NoErr, result |-> {e \in employees : e.id = id}]
  /\ UNCHANGED <<users, departments, employees, payrolls, seq, txn, reader, storage, calls>>

\* ------------------------------------ registerUser, await by await
\* a step of a caller on MemStorage: the SQL store, txn, reader and last stay
StorageStep(st, c, call) ==
  /\ storage' = st
  /\ calls' = [calls EXCEPT ![c] = call]
  /\ UNCHANGED <<users, departments, employees, payrolls, seq, txn, reader, last>>

\* registerUser up to its await of hashPassword: the lookup of the username,
\* and the error when it is taken
RegisterLookup(c, userData) ==
  /\ calls[c].pc \in {"idle", "done"}
  /\ storage.userIdCounter + Cardinality({d \in Callers : calls[d].pc = "hash"})
       <= MaxEmployees + 1
  /\ IF ~IsNull(MemStorage_getUserByUsername(storage, userData.username))
     THEN StorageStep(storage, c, [IdleCall EXCEPT !.pc = "done", !.op = "registerUser",
                                                   !.arg = Some(userData),
                                                   !.answer = Some("Username already exists")])
     ELSE StorageStep(storage, c, [IdleCall EXCEPT !.pc = "hash", !.op = "registerUser",
                                                   !.arg = Some(userData)])

\* registerUser after hashPassword resolved: storage.createUser
RegisterCreate(c) ==
  /\ calls[c].pc = "hash"
  /\ calls[c].op = "registerUser"
  /\ LET userData == Val(calls[c].arg)
         r == MemStorage_createUser(storage, [userData EXCEPT
                                                !.password = hashPassword(userData.password)])
     IN StorageStep(r.storage, c, [calls[c] EXCEPT !.pc = "done", !.answer = r.user])

\* ------------------------------- DELETE /api/payrolls/:id, call by call
\* a step of a caller on the SQL store
CallStep(db, c, call) ==
  /\ SetStore(db)
  /\ txn' = txn
  /\ reader' = Observed(db)
  /\ calls' = [calls EXCEPT ![c] = call]
  /\ UNCHANGED <<storage, last>>

\* the handler up to its await of deletePayroll: database.getPayroll, and
\* the 404 when there is no row
DeleteRouteLookup(c, id) ==
  /\ calls[c].pc \in {"idle", "done"}
  /\ IF id \notin Ids(payrolls)
     THEN CallStep(Store, c, [IdleCall EXCEPT !.pc = "done",
                                              !.op = "DELETE /api/payrolls/:id",
                                              !.arg = Some(id),
                                              !.answer = Some("Payroll not found")])
     ELSE CallStep(Store, c, [IdleCall EXCEPT !.pc = "delete",
                                              !.op = "DELETE /api/payrolls/:id",
                                              !.arg = Some(id)])

\* the rest of the handler: database.deletePayroll, whose answer is assigned
\* to success and not read, then the 200; out is what deletePayroll returned
DeleteRouteDelete(c) ==
  /\ calls[c].pc = "delete"
  /\ calls[c].op = "DELETE /api/payrolls/:id"
  /\ LET r == deletePayroll(Store, Val(calls[c].arg), NoFault)
     IN CallStep(r.db, c, [calls[c] EXCEPT !.pc = "done", !.out = Some(r.result),
                                         !.answer = IF r.err # NoErr THEN Some(r.err)
                                                    ELSE Some("Payroll deleted successfully")])

\* ----------------------------------------- withTransaction, await by await
\* the callback handed to withTransaction by createPayroll or deletePayroll
callback(db, w) ==
  IF w.op = "createPayroll" THEN createPayrollWork(db, w.p)
  ELSE deletePayrollWork(db, w.id)

InProgress(c) == calls[c].pc \in {"begin", "work", "commit", "rollback", "release"}

\* a release that is skipped when the call ends with an error
release_onSuccess(call) ==
  IF Val(call.answer).err # NoErr THEN call
  ELSE [call EXCEPT !.held = FALSE, !.released = @ + 1]

\* finally { client.release() }
release(call) == [call EXCEPT !.held = FALSE, !.released = @ + 1]

\* const client = await pool.connect()
Connect(c, w) ==
  /\ calls[c].pc \in {"idle", "done"}
  /\ seq.payrolls + Cardinality({d \in Callers : InProgress(d)}) <= MaxPayrolls
  /\ CallStep(Store, c, [IdleCall EXCEPT !.pc = "begin", !.op = "withTransaction",
                                          !.arg = Some(w), !.held = TRUE])

\* await client.query('BEGIN'); its error goes to the catch block
Begin(c, ok) ==
  /\ calls[c].pc = "begin"
  /\ CallStep(Store, c, IF ok THEN [calls[c] EXCEPT !.pc = "work"]
                        ELSE [calls[c] EXCEPT !.pc = "rollback",
                                              !.out = Some(Raise(Store, "begin failed"))])

\* await callback(client): the callback's writes stay on its client until
\* COMMIT, one writer at a time
Work(c) ==
  /\ calls[c].pc = "work"
  /\ \A d \in Callers : calls[d].pc # "commit"
  /\ LET r == callback(Store, Val(calls[c].arg))
     IN CallStep(Store, c, [calls[c] EXCEPT !.pc = IF r.err = NoErr THEN "commit"
                                                  ELSE "rollback",
                                           !.out = Some(r)])

\* await client.query('COMMIT'); return result
CommitStmt(c, ok) ==
  /\ calls[c].pc = "commit"
  /\ LET r == Val(calls[c].out)
     IN IF ok
        THEN CallStep(r.db, c, [calls[c] EXCEPT !.pc = "release",
                                              !.answer = Some([err |-> NoErr,
                                                               result |-> r.result])])
        ELSE CallStep(Store, c, [calls[c] EXCEPT !.pc = "rollback",
                                               !.out = Some(Raise(Store, "commit failed"))])

\* catch (error) { await client.query('ROLLBACK'); throw error }
RollbackStmt(c, ok) ==
  /\ calls[c].pc = "rollback"
  /\ CallStep(Store, c, [calls[c] EXCEPT !.pc = "release",
                                        !.answer = Some([err |-> IF ok THEN Val(calls[c].out).err
                                                                 ELSE "rollback failed",
                                                         result |-> Null])])

\* the finally block, then the return or the throw
Release(c) ==
  /\ calls[c].pc = "release"
  /\ CallStep(Store, c, [release(calls[c]) EXCEPT !.pc = "done"])

\* --------------------------------------------------------- initial states
\* the store after initDatabase
Init ==
  /\ users = InitUsers
  /\ departments = InitDepartments
  /\ employees = {}
  /\ payrolls = {}
  /\ seq = [users |-> 2, employees |-> 1, payrolls |-> 1]
  /\ last = [op |-> "init", arg |-> Null, fault |-> NoFault, err |-> NoErr, result |-> Null]
  /\ txn = IdleTxn
  /\ reader = IdleReader
  /\ storage = InitStorage
  /\ calls = [c \in Callers |-> IdleCall]

\* the store after one POST /api/employees for an active employee
InitOneEmployee ==
  /\ users = InitUsers
  /\ departments = InitDepartments
  /\ employees = {[id |-> 1, userId |-> Null, departmentId |-> Some(1),
                   status |-> "active", baseSalary |-> 100]}
  /\ payrolls = {}
  /\ seq = [users |-> 2, employees |-> 2, payrolls |-> 1]
  /\ last = [op |-> "init", arg |-> Null, fault |-> NoFault, err |-> NoErr, result |-> Null]
  /\ txn = IdleTxn
  /\ reader = IdleReader
  /\ storage = InitStorage
  /\ calls = [c \in Callers |-> IdleCall]

\* the store after two POST /api/employees: an active employee on a salary
\* of 100 and an active employee on a salary of 0
InitTwoEmployees ==
  /\ users = InitUsers
  /\ departments = InitDepartments
  /\ employees = {[id |-> 1, userId |-> Null, departmentId |-> Some(1),
                   status |-> "active", baseSalary |-> 100],
                  [id |-> 2, userId |-> Null, departmentId |-> Some(1),
                   status |-> "active", baseSalary |-> 0]}
  /\ payrolls = {}
  /\ seq = [users |-> 2, employees |-> 3, payrolls |-> 1]
  /\ last = [op |-> "init", arg |-> Null, fault |-> NoFault, err |-> NoErr, result |-> Null]
  /\ txn = IdleTxn
  /\ reader = IdleReader
  /\ storage = InitStorage
  /\ calls = [c \in Callers |-> IdleCall]

\* a well-formed createPayroll input
BasePayroll ==
  [employeeId |-> 1, month |-> 6, year |-> 2024, grossAmount |-> 100,
   taxDeductions |-> 10, otherDeductions |-> Null, netAmount |-> Null,
   bonuses |-> Null, status |-> Null, processedAt |-> Null, processedBy |-> Some(1)]

BaseBody ==
  [isNewUser |-> FALSE, userId |-> Null, username |-> "a.b", firstName |-> "a",
   departmentId |-> Some(1), status |-> Null, baseSalary |-> 100]

\* ------------------------------------------- employees and their payrolls
\* requests for an employee with or without a new user
LinkBodies == {[BaseBody EXCEPT !.isNewUser = n] : n \in BOOLEAN}

EmployeePayrolls == {[BasePayroll EXCEPT !.employeeId = e] : e \in 1..MaxEmployees}

Next ==
  \/ \E b \in LinkBodies : PostEmployee(b, NoFault, NoFault)
  \/ \E id \in 1..MaxEmployees, f \in Faults : DeleteEmployee(id, f)
  \/ \E p \in EmployeePayrolls : CreatePayroll(p, NoFault)

Spec == Init /\ [][Next]_vars

\* ------------------------------------------ employees created with their user
\* requests that create a user or not, for a department that exists or not
OnboardBodies ==
  {[BaseBody EXCEPT !.isNewUser = n, !.departmentId = d] :
     n \in BOOLEAN, d \in {Some(1), Some(9)}}

NextOnboard ==
  \/ \E b \in OnboardBodies, f1 \in Faults, f2 \in Faults : PostEmployee(b, f1, f2)
  \/ \E id \in 1..MaxEmployees : DeleteEmployee(id, NoFault)

SpecOnboard == Init /\ [][NextOnboard]_vars

\* ------------------------------------------------ validation on createPayroll
StatusBodies ==
  {[BaseBody EXCEPT !.status = st] : st \in {Null, Some("inactive"), Some("terminated")}}

\* payrolls for every employee id, one more than can exist, and the inputs
\* the trigger rejects on their own
ValidationPayrolls ==
  {[BasePayroll EXCEPT !.employeeId = e] : e \in 1..(MaxEmployees + 1)}
  \cup {[BasePayroll EXCEPT !.month = 13], [BasePayroll EXCEPT !.year = 2101],
        [BasePayroll EXCEPT !.grossAmount = 0],
        [BasePayroll EXCEPT !.grossAmount = -50]}

NextValidation ==
  \/ \E b \in StatusBodies : PostEmployee(b, NoFault, NoFault)
  \/ \E id \in 1..MaxEmployees : DeleteEmployee(id, NoFault)
  \/ \E p \in ValidationPayrolls, f \in Faults : CreatePayroll(p, f)

SpecValidation == Init /\ [][NextValidation]_vars

\* ----------------------------------------------- amounts on create and update
AmountPayrolls ==
  {BasePayroll,
   [BasePayroll EXCEPT !.netAmount = Some(1)],
   [BasePayroll EXCEPT !.netAmount = Some(90)],
   [BasePayroll EXCEPT !.otherDeductions = Some(5), !.bonuses = Some(20)]}

AmountPatches ==
  {[grossAmount |-> 200], [bonuses |-> Some(20)],
   [grossAmount |-> 200, netAmount |-> 190], [netAmount |-> 1], <<>>}

NextAmounts ==
  \/ \E p \in AmountPayrolls : CreatePayroll(p, NoFault)
  \/ \E id \in 1..MaxPayrolls, patch \in AmountPatches : UpdatePayroll(id, patch, NoFault)

SpecAmounts == InitOneEmployee /\ [][NextAmounts]_vars

\* ------------------------------------- period and status on create and update
FieldPayrolls ==
  {BasePayroll,
   [BasePayroll EXCEPT !.status = Some("completed")],
   [BasePayroll EXCEPT !.month = 13],
   [BasePayroll EXCEPT !.year = 1999]}

FieldPatches ==
  {[month |-> 13], [year |-> 1999], [month |-> 7, year |-> 2025],
   [status |-> "pending"], [status |-> "completed"], [status |-> "failed"],
   [status |-> "completed", processedAt |-> Null],
   [employeeId |-> 9], <<>>}

NextFields ==
  \/ \E p \in FieldPayrolls : CreatePayroll(p, NoFault)
  \/ \E id \in 1..MaxPayrolls, patch \in FieldPatches : UpdatePayroll(id, patch, NoFault)

SpecFields == InitOneEmployee /\ [][NextFields]_vars

\* ------------------------------------- the amounts a create or update takes
CreatePayrolls ==
  {BasePayroll,
   [BasePayroll EXCEPT !.grossAmount = 5000, !.taxDeductions = 750,
                       !.otherDeductions = Some(0), !.bonuses = Some(200)],
   [BasePayroll EXCEPT !.netAmount = Some(1)],
   [BasePayroll EXCEPT !.status = Some("completed")],
   [BasePayroll EXCEPT !.taxDeductions = -5]}

CreatePatches == {[bonuses |-> Some(-20)], [otherDeductions |-> Some(-5)], <<>>}

NextCreate ==
  \/ \E p \in CreatePayrolls : CreatePayroll(p, NoFault)
  \/ \E id \in 1..MaxPayrolls, patch \in CreatePatches : UpdatePayroll(id, patch, NoFault)

SpecCreate == InitOneEmployee /\ [][NextCreate]_vars

\* -------------------------------------------- what an update leaves alone
FramePayrolls ==
  {BasePayroll,
   [BasePayroll EXCEPT !.otherDeductions = Some(5), !.bonuses = Some(20)]}

FramePatches ==
  {[month |-> 7, year |-> 2025], [grossAmount |-> 200], [status |-> "completed"],
   [bonuses |-> Some(20), processedBy |-> Some(1)], [employeeId |-> 9], <<>>}

FrameIds == {1, 2, 9}

NextFrame ==
  \/ \E p \in FramePayrolls : CreatePayroll(p, NoFault)
  \/ \E id \in FrameIds, patch \in FramePatches : UpdatePayroll(id, patch, NoFault)

SpecFrame == InitOneEmployee /\ [][NextFrame]_vars

\* ------------------------------------------------- payrolls deleted by id
DeleteIds == {1, 2, 9}

NextDelete ==
  \/ \E p \in FramePayrolls : CreatePayroll(p, NoFault)
  \/ \E id \in DeleteIds, f \in Faults : DeletePayroll(id, f)

SpecDelete == InitOneEmployee /\ [][NextDelete]_vars

\* ------------------------------------------------------ bulk monthly runs
SalaryBodies ==
  {[BaseBody EXCEPT !.status = st, !.baseSalary = b] :
     st \in {Null, Some("inactive")}, b \in {0, 100}}

Periods == {[month |-> 6, year |-> 2024], [month |-> 13, year |-> 2024]}

NextBulk ==
  \/ \E b \in SalaryBodies : PostEmployee(b, NoFault, NoFault)
  \/ \E p \in EmployeePayrolls : CreatePayroll(p, NoFault)
  \/ \E pd \in Periods, f \in Faults : ProcessMonthlyPayroll(pd.month, pd.year, Some(1), f)

SpecBulk == Init /\ [][NextBulk]_vars

\* ------------------------------------- transactions whose COMMIT or ROLLBACK fails
TxnPayrolls == {BasePayroll, [BasePayroll EXCEPT !.month = 13]}

TxnPatches == {[status |-> "completed"], [employeeId |-> 9]}

NextTxn ==
  \/ \E p \in TxnPayrolls, f \in Faults : CreatePayroll(p, f)
  \/ \E id \in 1..MaxPayrolls, patch \in TxnPatches, f \in Faults : UpdatePayroll(id, patch, f)
  \/ \E id \in 1..MaxEmployees, f \in Faults : DeleteEmployee(id, f)
  \/ \E pd \in Periods, f \in Faults : ProcessMonthlyPayroll(pd.month, pd.year, Some(1), f)

SpecTxn == InitTwoEmployees /\ [][NextTxn]_vars

\* ------------------------------------------------- the aggregate reads
\* employees of a department, of another, of none; active or not
AggregateBodies ==
  {[BaseBody EXCEPT !.departmentId = Some(1)],
   [BaseBody EXCEPT !.departmentId = Some(2), !.baseSalary = 101],
   [BaseBody EXCEPT !.departmentId = Null],
   [BaseBody EXCEPT !.status = Some("inactive"), !.baseSalary = 300]}

\* payrolls of the current period and of another
AggregatePayrolls == {[BasePayroll EXCEPT !.month = m] : m \in {6, 7}}

\* the period of new Date()
Today == [month |-> 6, year |-> 2024]

NextAggregate ==
  \/ \E b \in AggregateBodies : PostEmployee(b, NoFault, NoFault)
  \/ \E p \in AggregatePayrolls : CreatePayroll(p, NoFault)
  \/ \E ok \in BOOLEAN, f \in Faults : GetDashboardSummary(Today, ok, f)
  \/ \E f \in Faults : GetDepartmentDistribution(f)

SpecAggregate == Init /\ [][NextAggregate]_vars

\* ------------------------------ aggregate reads among committing writers
SnapshotBodies ==
  {[BaseBody EXCEPT !.departmentId = Some(1)],
   [BaseBody EXCEPT !.departmentId = Some(2), !.baseSalary = 101]}

NextSnapshot ==
  \/ \E b \in SnapshotBodies : PostEmployee(b, NoFault, NoFault)
  \/ \E p \in AggregatePayrolls : CreatePayroll(p, NoFault)
  \/ SummaryCount(Today)
  \/ SummaryView
  \/ SummarySum
  \/ SummaryAverage
  \/ SummaryPending
  \/ DistributionCounts
  \/ DistributionTotal

SpecSnapshot == Init /\ [][NextSnapshot]_vars

\* ------------------------------------ aggregate reads whose queries fail
NextFailure ==
  \/ \E b \in SnapshotBodies : PostEmployee(b, NoFault, NoFault)
  \/ \E p \in AggregatePayrolls : CreatePayroll(p, NoFault)
  \/ \E q \in SummaryQueries, f \in Faults : GetDashboardSummaryFailing(Today, q, f)
  \/ \E q \in DistributionQueries, f \in Faults : GetDepartmentDistributionFailing(q, f)

SpecFailure == Init /\ [][NextFailure]_vars

\* ------------------------------ reads while an employee is being deleted
NextIsolation ==
  \/ \E p \in EmployeePayrolls :
       ~LockedEmployee(p.employeeId) /\ CreatePayroll(p, NoFault)
  \/ \E id \in 1..MaxEmployees : DeletePayrollsStmt(id)
  \/ DeleteEmployeeStmt
  \/ \E f \in Faults : CommitTxn(f)
  \/ \E id \in 1..MaxEmployees : GetPayrollsByEmployeeId(id)
  \/ \E id \in 1..MaxEmployees : GetEmployee(id)

SpecIsolation == InitTwoEmployees /\ [][NextIsolation]_vars

\* ------------------- payrolls written while an employee is being deleted
ReferencePayrolls == {[BasePayroll EXCEPT !.employeeId = e] : e \in {1, 2, 9}}

ReferencePatches == {[employeeId |-> e] : e \in {1, 2, 9}}

NextReferences ==
  \/ \E p \in ReferencePayrolls :
       ~LockedEmployee(p.employeeId) /\ CreatePayroll(p, NoFault)
  \/ \E id \in 1..MaxPayrolls, patch \in ReferencePatches :
       /\ ~LockedPayroll(id)
       /\ ~LockedEmployee(patch.employeeId)
       /\ UpdatePayroll(id, patch, NoFault)
  \/ \E id \in 1..MaxPayrolls : ~LockedPayroll(id) /\ DeletePayroll(id, NoFault)
  \/ \E id \in 1..MaxEmployees : DeletePayrollsStmt(id)
  \/ DeleteEmployeeStmt
  \/ \E f \in Faults : CommitTxn(f)

SpecReferences == InitTwoEmployees /\ [][NextReferences]_vars

\* ------------------------------------- requests that carry a login's token
LoginData ==
  {[username |-> "bob", password |-> "secret"], [username |-> "bob", password |-> "wrong1"],
   [username |-> "eve", password |-> "secret"],
   [username |-> "admin", password |-> "password"]}

AuthUsers ==
  {[username |-> n, password |-> "secret", role |-> "employee"] : n \in {"bob", "eve"}}

NextAuth ==
  \/ \E u \in AuthUsers : RegisterUser(u)
  \/ \E l \in LoginData : LoginUser(l)
  \/ \E t \in Tokens : GetMe(t)
  \/ \E t \in Tokens, b \in LinkBodies : PostEmployeeRoute(t, b)

SpecAuth == Init /\ [][NextAuth]_vars

\* ------------------------------- employees patched together with their user
PatchBodies ==
  {[firstName |-> "z"], [departmentId |-> Some(2)],
   [firstName |-> "z", departmentId |-> Some(2)],
   [firstName |-> "z", departmentId |-> Some(9)]}

NextPatch ==
  \/ \E b \in LinkBodies : PostEmployee(b, NoFault, NoFault)
  \/ \E id \in 1..MaxEmployees, b \in PatchBodies, f \in Faults :
       PatchEmployee(id, b, NoFault, f)

SpecPatch == Init /\ [][NextPatch]_vars

\* ------------------------------------- concurrent deletes of one payroll
NextDeleteRoute ==
  \/ \E p \in FramePayrolls : CreatePayroll(p, NoFault)
  \/ \E c \in Callers, id \in 1..MaxPayrolls : DeleteRouteLookup(c, id)
  \/ \E c \in Callers : DeleteRouteDelete(c)

SpecDeleteRoute == InitOneEmployee /\ [][NextDeleteRoute]_vars

\* ------------------------------------------- the clients of the pool
\* the calls whose withTransaction is followed
Works ==
  {[op |-> "createPayroll", p |-> BasePayroll],
   [op |-> "createPayroll", p |-> [BasePayroll EXCEPT !.month = 13]],
   [op |-> "deletePayroll", id |-> 1]}

NextPool ==
  \/ \E c \in Callers, w \in Works : Connect(c, w)
  \/ \E c \in Callers, ok \in BOOLEAN : Begin(c, ok)
  \/ \E c \in Callers : Work(c)
  \/ \E c \in Callers, ok \in BOOLEAN : CommitStmt(c, ok)
  \/ \E c \in Callers, ok \in BOOLEAN : RollbackStmt(c, ok)
  \/ \E c \in Callers : Release(c)

SpecPool == InitOneEmployee /\ [][NextPool]_vars

\* --------------------------------------------- concurrent registrations
RegisterData ==
  {[username |-> n, password |-> "secret", role |-> "employee"] : n \in {"bob", "Bob", "eve"}}

NextRegister ==
  \/ \E c \in Callers, u \in RegisterData : RegisterLookup(c, u)
  \/ \E c \in Callers : RegisterCreate(c)

SpecRegister == Init /\ [][NextRegister]_vars

\* ---------------------- departments deleted while employees are assigned
DepartmentBodies ==
  {[BaseBody EXCEPT !.departmentId = d] : d \in {Some(1), Some(2)}}

DepartmentPatches ==
  {[departmentId |-> Some(1)], [departmentId |-> Some(2)], [departmentId |-> Null]}

\* two departments that exist and one that does not
DepartmentIds == {1, 2, 9}

NextDepartments ==
  \/ \E b \in DepartmentBodies :
       ~LockedDepartment(b.departmentId) /\ PostEmployee(b, NoFault, NoFault)
  \/ \E id \in 1..MaxEmployees, patch \in DepartmentPatches :
       ~LockedDepartment(patch.departmentId) /\ UpdateEmployee(id, patch, NoFault)
  \/ \E id \in DepartmentIds : CountEmployeesStmt(id)
  \/ DeleteDepartmentStmt
  \/ \E f \in Faults : CommitTxn(f)

SpecDepartments == Init /\ [][NextDepartments]_vars

\* ================================================================ claims
AmountFields == {"grossAmount", "taxDeductions", "otherDeductions", "bonuses"}

NetConsistent(p) ==
  p.netAmount = NetOf(p.grossAmount, p.taxDeductions, p.otherDeductions, p.bonuses)

\* C1: every stored payroll row has netAmount = grossAmount - taxDeductions -
\* otherDeductions + bonuses (absent amounts counted as zero), whatever
\* sequence of writes produced it.
C1_NetAmountInvariant == \A p \in payrolls : NetConsistent(p)

\* C2: when POST /api/employees created a user and then failed to create the
\* employee, the user it created is not in the store afterwards.
C2_EmployeeWithUserAtomic ==
  (last.op = "POST /api/employees" /\ last.err # NoErr /\ ~IsNull(last.result))
    => Val(last.result) \notin Ids(users)

\* the calls that are one withTransaction, and the callback each one passes
TxnOps == {"createPayroll", "updatePayroll", "deleteEmployee", "processMonthlyPayroll"}

WorkOf(db, l) ==
  CASE l.op = "createPayroll" -> createPayrollWork(db, l.arg)
    [] l.op = "updatePayroll" -> updatePayrollWork(db, l.arg.id, l.arg.patch)
    [] l.op = "deleteEmployee" -> deleteEmployeeWork(db, l.arg)
    [] l.op = "processMonthlyPayroll" ->
         processMonthlyPayrollWork(db, l.arg.month, l.arg.year, l.arg.by)

\* C3 as stated: when the callback completes, its mutations are in the store
\* and its result is returned; when it raises e, the store is as before and
\* e itself is raised.
C3_AllOrNothingAsStated ==
  [][last'.op \in TxnOps =>
       LET out == WorkOf(Store, last')
       IN IF out.err = NoErr
          THEN last'.err = NoErr /\ last'.result = out.result /\ Store' = out.db
          ELSE last'.err = out.err /\ Store' = Store]_vars

\* C3 amended: when the callback completes and COMMIT succeeds, its mutations
\* are in the store and its result is returned; otherwise the store is as
\* before and an error is raised, which is the callback's own error e
\* whenever ROLLBACK succeeds.
C3_AllOrNothing ==
  [][last'.op \in TxnOps =>
       LET out == WorkOf(Store, last')
       IN IF out.err = NoErr /\ "COMMIT" \notin last'.fault
          THEN last'.err = NoErr /\ last'.result = out.result /\ Store' = out.db
          ELSE /\ Store' = Store
               /\ last'.err # NoErr
               /\ (out.err # NoErr /\ "ROLLBACK" \notin last'.fault)
                    => last'.err = out.err]_vars

\* a bulk run that inserted the payroll of employee 1 and then failed on
\* employee 2 (gross 0) has left no payroll behind
C3_Witness ==
  /\ last.op = "processMonthlyPayroll"
  /\ last.fault = NoFault
  /\ last.arg.month = 6
  /\ last.err = "Failed to process monthly payroll"
  /\ Cardinality(employees) = 2
  /\ payrolls = {}

\* C4: an updatePayroll whose patch changes one of the four input amounts
\* leaves the row with netAmount recomputed over the merged amounts.
C4_UpdateRecomputesNet ==
  [][(last'.op = "updatePayroll" /\ last'.err = NoErr) =>
       \A old \in payrolls :
         (old.id = last'.arg.id
          /\ \E f \in AmountFields \cap DOMAIN last'.arg.patch :
               last'.arg.patch[f] # old[f])
         => \A new \in payrolls' : new.id = old.id => NetConsistent(new)]_vars

\* C5: a createPayroll given a netAmount that differs from the calculation
\* stores the calculated value.
C5_CreateStoresComputedNet ==
  (last.op = "createPayroll" /\ last.err = NoErr /\ ~IsNull(last.arg.netAmount)
   /\ Val(last.arg.netAmount) # NetOf(last.arg.grossAmount, last.arg.taxDeductions,
                                     last.arg.otherDeductions, last.arg.bonuses))
  => \A p \in payrolls : p.id = last.result.id => NetConsistent(p)

\* C6: every stored payroll has month in 1..12 and year in 2000..2100.
C6_PeriodInRange ==
  \A p \in payrolls : /\ MinMonth <= p.month /\ p.month <= MaxMonth
                      /\ MinYear <= p.year /\ p.year <= MaxYear

\* C7: a createPayroll for an employee that does not exist or is not active
\* raises an error and leaves the payrolls as they were.
C7_IneligibleEmployeeRejected ==
  [][(last'.op = "createPayroll"
      /\ ~\E e \in employees : e.id = last'.arg.employeeId /\ e.status = "active")
     => (last'.err # NoErr /\ payrolls' = payrolls)]_vars

\* a createPayroll for a terminated employee was rejected by the trigger
C7_Witness ==
  /\ last.op = "createPayroll"
  /\ last.err = "Employee ID does not exist or is not active"
  /\ \E e \in employees : e.id = last.arg.employeeId /\ e.status = "terminated"

\* C8: a deleteEmployee(id) that succeeds leaves no payroll of that employee
\* and no employee row with that id, and keeps the user the employee
\* referenced; one that fails changes nothing.
C8_DeleteEmployeeCascade ==
  [][last'.op = "deleteEmployee" =>
       IF last'.err = NoErr
       THEN /\ ~\E p \in payrolls' : p.employeeId = last'.arg
            /\ last'.arg \notin Ids(employees')
            /\ \A e \in employees :
                 (e.id = last'.arg /\ ~IsNull(e.userId)) => Val(e.userId) \in Ids(users')
            /\ users' = users
       ELSE Store' = Store]_vars

\* the only employee ever created was deleted together with its two
\* payrolls, and the user created with it is still there
C8_Witness ==
  /\ last.op = "deleteEmployee"
  /\ last.err = NoErr
  /\ last.result = TRUE
  /\ seq.employees = 2
  /\ seq.payrolls >= 3
  /\ employees = {}
  /\ payrolls = {}
  /\ \E u \in users : u.username = "a.b"

PeriodRows(rows, m, y) == {p \in rows : p.month = m /\ p.year = y}

C10_NoReturnToPending ==
  [][\A p \in payrolls :
       p.status \in {"completed", "failed"} =>
         \A q \in payrolls' : q.id = p.id => q.status # "pending"]_vars

\* C11: the counts returned by getDepartmentDistribution sum to the number
\* of employees with status active.
C11_DistributionSumsToActive ==
  (last.op = "getDepartmentDistribution" /\ last.err = NoErr)
    => SumField(last.result, "count") = activeCount(Store)

\* C12: every result of getDashboardSummary and of getDepartmentDistribution
\* is the result computed from one of the committed states the store went
\* through while the call ran.
C12_SingleSnapshot ==
  reader.pc = "done" =>
    \E S \in reader.seen :
      reader.acc = IF reader.op = "getDashboardSummary"
                   THEN getDashboardSummaryWork(S, Today, TRUE).result
                   ELSE getDepartmentDistributionWork(S).result

\* C14: a read made while deleteEmployee(id) is in progress sees the employee
\* row and every payroll the transaction has deleted so far: nothing of the
\* deletion is visible before its COMMIT.
C14_NoPartialDelete ==
  [][(txn.op = "deleteEmployee" /\ txn.pc # "idle" /\ txn' = txn
      /\ last'.op \in {"getPayrollsByEmployeeId", "getEmployee"}
      /\ last'.arg = txn.id)
     => /\ last'.op = "getPayrollsByEmployeeId"
             => txn.deleted.payrolls \subseteq Ids(last'.result)
        /\ last'.op = "getEmployee"
             => /\ txn.deleted.employees \subseteq Ids(last'.result)
                /\ txn.deleted.payrolls \subseteq Ids(payrolls')]_vars

\* a read that ran between the two DELETEs of deleteEmployee: it returned the
\* payroll the transaction had deleted and one committed after that DELETE
C14_Witness ==
  /\ txn.op = "deleteEmployee"
  /\ txn.pc = "employee"
  /\ last.op = "getPayrollsByEmployeeId"
  /\ last.arg = txn.id
  /\ Cardinality(txn.deleted.payrolls) = 1
  /\ Cardinality(last.result) = 2
  /\ txn.deleted.payrolls \subseteq Ids(last.result)

\* every employee's department exists
DepartmentRefs ==
  \A e \in employees : ~IsNull(e.departmentId) => Val(e.departmentId) \in Ids(departments)

\* C16: every employee's non-null departmentId names an existing department
\* after every step, and a deleteDepartment(id) that returns while an
\* employee has departmentId = id raises an error and leaves departments and
\* employees unchanged.
C16_DepartmentInUseKept ==
  [][/\ DepartmentRefs'
     /\ (last'.op = "deleteDepartment" /\ txn'.pc = "idle"
         /\ \E e \in employees : e.departmentId = Some(last'.arg))
        => (last'.err # NoErr /\ departments' = departments
            /\ employees' = employees)]_vars

\* a deleteDepartment whose count found no employee and whose DELETE was
\* refused because an employee was assigned in between
C16_Witness ==
  /\ last.op = "deleteDepartment"
  /\ last.err = "violates foreign key constraint employees_department_id_fkey"
  /\ \E e \in employees : e.departmentId = Some(last.arg)
  /\ last.arg \in Ids(departments)

C15_NoDeduplication ==
  [][(last'.op = "createPayroll" /\ last'.fault = NoFault
      /\ validate_payroll_data(Store, last'.arg).err = NoErr
      /\ \E p \in payrolls : /\ p.employeeId = last'.arg.employeeId
                             /\ p.month = last'.arg.month /\ p.year = last'.arg.year)
     => /\ last'.err = NoErr
        /\ last'.result.id \notin Ids(payrolls)
        /\ payrolls' = payrolls \cup {last'.result}
        /\ last'.result.employeeId = last'.arg.employeeId
        /\ last'.result.month = last'.arg.month
        /\ last'.result.year = last'.arg.year]_vars

\* two payrolls of one employee for one period, the second just created
C15_Witness ==
  /\ last.op = "createPayroll"
  /\ last.err = NoErr
  /\ \E p \in payrolls, q \in payrolls :
       /\ p.id # q.id /\ q = last.result
       /\ p.employeeId = q.employeeId /\ p.month = q.month /\ p.year = q.year

\* C17: updatePayroll(id, patch) leaves every other row as it was, keeps in
\* the row with that id every field that is not in the patch (netAmount
\* excepted when the patch changes an amount), and when no row has that id
\* changes nothing and returns no row.
C17_UpdateFrame ==
  [][last'.op = "updatePayroll" =>
       LET id == last'.arg.id
           patch == last'.arg.patch
           Changes(p) == \E f \in AmountFields \cap DOMAIN patch : patch[f] # p[f]
       IN /\ {p \in payrolls : p.id # id} = {q \in payrolls' : q.id # id}
          /\ \A p \in payrolls : p.id = id =>
               \E q \in payrolls' :
                 /\ q.id = id
                 /\ \A f \in DOMAIN p :
                      (f \notin DOMAIN patch /\ ~(f = "netAmount" /\ Changes(p)))
                        => q[f] = p[f]
          /\ id \notin Ids(payrolls) =>
               (payrolls' = payrolls /\ last'.err = NoErr /\ last'.result = {})
          /\ UNCHANGED <<users, departments, employees>>]_vars

\* an update of the period of one of two payrolls that changed month and
\* year of that row and nothing else
C17_Witness ==
  /\ last.op = "updatePayroll"
  /\ last.err = NoErr
  /\ last.arg.patch = [month |-> 7, year |-> 2025]
  /\ Cardinality(payrolls) = 2
  /\ \E p \in payrolls, q \in payrolls :
       /\ p.id = last.arg.id /\ p.month = 7 /\ p.year = 2025 /\ p.grossAmount = 100
       /\ q.id # p.id /\ q.month = 6 /\ q.year = 2024

\* C18: every stored payroll has taxDeductions, otherDeductions and bonuses
\* that are not negative.
C18_NoNegativeAmounts ==
  \A p \in payrolls : /\ p.taxDeductions >= 0
                      /\ OrZero(p.otherDeductions) >= 0
                      /\ OrZero(p.bonuses) >= 0

\* C19: every payroll with status completed has a processedAt.
C19_CompletedHasProcessedAt ==
  \A p \in payrolls : p.status = "completed" => ~IsNull(p.processedAt)

C21_NonPositiveGrossRejected ==
  [][(last'.op = "createPayroll" /\ last'.arg.grossAmount <= 0)
     => (last'.err # NoErr /\ payrolls' = payrolls /\ seq'.payrolls = seq.payrolls)]_vars

\* a createPayroll with a negative gross amount for an active employee and a
\* period in range was rejected for its gross amount
C21_Witness ==
  /\ last.op = "createPayroll"
  /\ last.arg.grossAmount < 0
  /\ last.err = "Gross amount must be positive"
  /\ \E e \in employees : e.id = last.arg.employeeId /\ e.status = "active"

\* C22: a deletePayroll(id) whose COMMIT succeeds removes the row with that
\* id and returns true when there is one; when there is none (it was deleted
\* before, or never existed) it raises no error, returns false and leaves
\* the store as it was.
C22_DeleteIdempotent ==
  [][(last'.op = "deletePayroll" /\ last'.fault = NoFault)
     => /\ last'.err = NoErr
        /\ last'.arg \in Ids(payrolls)
             => (last'.result = TRUE
                 /\ payrolls' = {p \in payrolls : p.id # last'.arg})
        /\ last'.arg \notin Ids(payrolls)
             => (last'.result = FALSE /\ payrolls' = payrolls)
        /\ UNCHANGED <<users, departments, employees, seq>>]_vars

\* a second deletePayroll of an id whose row had been created and deleted
\* returned false, another payroll still being stored
C22_Witness ==
  /\ last.op = "deletePayroll"
  /\ last.fault = NoFault
  /\ last.err = NoErr
  /\ last.result = FALSE
  /\ last.arg < seq.payrolls
  /\ last.arg \notin Ids(payrolls)
  /\ payrolls # {}

\* C23: a getDashboardSummary or getDepartmentDistribution one of whose
\* issued queries failed raises an error and returns no result.
C23_FailureSurfaces ==
  /\ (last.op = "getDashboardSummary" /\ Issued(Store, last.arg.today, last.arg.failed))
       => (last.err # NoErr /\ IsNull(last.result))
  /\ last.op = "getDepartmentDistribution"
       => (last.err # NoErr /\ IsNull(last.result))

\* the query on the view failed, with an active employee and a payroll of
\* the period in the store, and the call raised from its catch block
C23_Witness ==
  /\ last.op = "getDashboardSummary"
  /\ last.arg.failed = "view"
  /\ last.fault = NoFault
  /\ last.err = "current transaction is aborted"
  /\ activeCount(Store) > 0
  /\ payrollSum(Store, Today.month, Today.year) > 0

\* C24: every stored payroll's employeeId is the id of a stored employee.
C24_PayrollHasEmployee ==
  \A p \in payrolls : p.employeeId \in Ids(employees)

\* a deleteEmployee was refused by the foreign key because a payroll of the
\* employee was committed between its two DELETEs
C24_Witness ==
  /\ last.op = "deleteEmployee"
  /\ last.err = "violates foreign key constraint payrolls_employee_id_fkey"
  /\ last.arg \in Ids(employees)
  /\ \E p \in payrolls : p.employeeId = last.arg

\* C27: no two users of the store that registerUser writes have the same
\* username in lower case.
C27_UniqueUsernames ==
  \A u \in storage.users, v \in storage.users :
    u.id # v.id => Lower(u.username) # Lower(v.username)

\* C25: a POST /api/employees whose token is not an admin's is answered
\* 'Admin access required' and changes no user and no employee.
C25_AdminOnlyCreate ==
  [][(last'.op = "POST /api/employees" /\ ~IsNull(last'.arg.token)
      /\ Val(last'.arg.token).role # "admin")
     => (last'.err = "Admin access required"
         /\ UNCHANGED <<users, employees, seq>>)]_vars

\* C28: a GET /api/auth/me carrying the token that loginUser issued for a
\* registered user answers with the record of that username.
C28_SameUserStore ==
  (last.op = "GET /api/auth/me" /\ ~IsNull(last.arg))
    => (last.err = NoErr /\ \E u \in last.result : u.username = Val(last.arg).username)

\* C29: a PATCH /api/employees/:id that is answered with an error leaves
\* every user row as it was before the request.
C29_PatchAtomic ==
  [][(last'.op = "PATCH /api/employees/:id" /\ last'.err # NoErr)
     => users' = users]_vars

\* C26: a withTransaction call holds its client, unreleased, from
\* pool.connect() until its finally block, and has released it exactly once
\* when it returns or raises; when no call is in progress no client is held.
C26_ClientReleasedOnce ==
  /\ \A c \in Callers :
       /\ InProgress(c) => (calls[c].held /\ calls[c].released = 0)
       /\ (calls[c].op = "withTransaction" /\ calls[c].pc = "done")
            => (~calls[c].held /\ calls[c].released = 1)
  /\ (\A c \in Callers : ~InProgress(c)) => \A c \in Callers : ~calls[c].held

\* one call raised after its ROLLBACK failed, the other returned after its
\* COMMIT, and both released their client
C26_Witness ==
  \E c \in Callers, d \in Callers :
    /\ calls[c].op = "withTransaction" /\ calls[c].pc = "done"
    /\ Val(calls[c].answer).err = "rollback failed"
    /\ calls[c].released = 1 /\ ~calls[c].held
    /\ calls[d].op = "withTransaction" /\ calls[d].pc = "done"
    /\ Val(calls[d].answer).err = NoErr
    /\ calls[d].released = 1 /\ ~calls[d].held

\* C30: a DELETE /api/payrolls/:id answers 'Payroll deleted successfully'
\* only when its own deletePayroll returned true, and no two requests on one
\* id both answer it.
C30_OneDeleteSucceeds ==
  LET Succeeded(c) == /\ calls[c].op = "DELETE /api/payrolls/:id"
                      /\ calls[c].pc = "done"
                      /\ calls[c].answer = Some("Payroll deleted successfully")
  IN /\ \A c \in Callers : Succeeded(c) => calls[c].out = Some(TRUE)
     /\ \A c \in Callers, d \in Callers :
          (c # d /\ Succeeded(c) /\ Succeeded(d)) => calls[c].arg # calls[d].arg

====
